---- MODULE Spec2Model ----
(***************************************************************************)
(* trackr-back: validation of Entry.data against the FieldDefinitions of   *)
(* its HobbyType (api/models.py, Entry.clean and Entry._validate_value)    *)
(* and the write path of EntrySerializer (api/serializers.py).             *)
(***************************************************************************)
EXTENDS Integers, Sequences, FiniteSets, TLC

VARIABLES hobby_type_id, fields, data, pc, idx, errors, raised, calls, printed,
          entries, resp, hobby_types, tags, request

vars == <<hobby_type_id, fields, data, pc, idx, errors, raised, calls, printed,
          entries, resp, hobby_types, tags, request>>

cleanVars == <<hobby_type_id, fields, data, pc, idx, errors, raised, calls, printed>>

dbVars == <<entries, resp, hobby_types, tags, request>>

(***************************************************************************)
(* Bounds of the drawn inputs.                                             *)
(***************************************************************************)
\* longest list value drawn for a record
MaxItems == 2
\* integer record values are drawn from -MaxInt..MaxInt
MaxInt == 2
\* min / max options are drawn from -MaxBound..MaxBound
MaxBound == 1
\* min_items / max_items options are drawn from 0..MaxCount
MaxCount == 2
\* number of entry rows the database may hold
MaxEntries == 1
\* number of hobby type rows users may create
MaxHobbyTypes == 2
\* number of tag rows users may create
MaxTags == 2

(***************************************************************************)
(* JSON values as Python sees them.  Every value has the same shape: a    *)
(* type tag t, a number n (int, and bool as 0/1 since bool is a subclass   *)
(* of int), a string s and a list l of values.                             *)
(***************************************************************************)
None == [t |-> "null", n |-> 0, s |-> "", l |-> <<>>]

\* the key is not in the options dict at all
Unset == [t |-> "unset", n |-> 0, s |-> "", l |-> <<>>]

JInt(k) == [t |-> "int", n |-> k, s |-> "", l |-> <<>>]

JStr(x) == [t |-> "str", n |-> 0, s |-> x, l |-> <<>>]

JBool(b) == [t |-> "bool", n |-> IF b THEN 1 ELSE 0, s |-> "", l |-> <<>>]

JList(items) == [t |-> "list", n |-> 0, s |-> "", l |-> items]

\* isinstance(value, str)
IsInstanceStr(value) == value.t = "str"

\* isinstance(value, bool)
IsInstanceBool(value) == value.t = "bool"

\* isinstance(value, (int, float)): True and False are ints in Python
IsInstanceNumber(value) == value.t \in {"int", "bool"}

\* isinstance(value, list)
IsInstanceList(value) == value.t = "list"

\* bool(x) of a JSON value, as `if choices` evaluates it
Truthy(x) ==
  CASE x.t = "null" -> FALSE
    [] x.t = "bool" -> x.n = 1
    [] x.t = "int" -> x.n # 0
    [] x.t = "str" -> x.s # ""
    [] x.t = "list" -> x.l # <<>>

\* a == b in Python: numbers (bools included) by value, the rest by type and content
PyEq(a, b) ==
  IF IsInstanceNumber(a) /\ IsInstanceNumber(b) THEN a.n = b.n
  ELSE a.t = b.t /\ a = b

\* `value < bound` and `value > bound` are defined between numbers only;
\* against a str or a list Python raises TypeError
Orderable(bound) == IsInstanceNumber(bound)

\* `x in container` is defined when the container is a list (drawn containers
\* are lists or ints; an int container raises TypeError)
Iterable(container) == container.t = "list"

Contains(container, x) ==
  \E j \in DOMAIN container.l : PyEq(x, container.l[j])

\* opts.get(name)
OptGet(opts, name) == IF opts[name] = Unset THEN None ELSE opts[name]

\* opts.get(name, default)
OptGetDefault(opts, name, default) ==
  IF opts[name] = Unset THEN default ELSE opts[name]

(***************************************************************************)
(* Outcomes of a call: a normal return, ValidationError(message), or an    *)
(* exception of another class (TypeError) that no handler here catches.    *)
(***************************************************************************)
Msg(text, arg) == [text |-> text, arg |-> arg, keys |-> <<>>]

NoMsg == Msg("", 0)

Ok == [exc |-> "none", message |-> NoMsg]

ValidationError(text, arg) == [exc |-> "ValidationError", message |-> Msg(text, arg)]

TypeError == [exc |-> "TypeError", message |-> NoMsg]

\* text / long_text / url
ValidateText(opts, value) ==
  IF ~IsInstanceStr(value) THEN ValidationError("Must be a string.", 0) ELSE Ok

ValidateBoolean(opts, value) ==
  IF ~IsInstanceBool(value) THEN ValidationError("Must be true/false.", 0) ELSE Ok

\* the bounds tested by truthiness instead of `is not None`
ValidateNumberTruthy(opts, value) ==
  IF ~IsInstanceNumber(value) THEN ValidationError("Must be a number.", 0)
  ELSE LET minv == OptGet(opts, "min")
           maxv == OptGet(opts, "max")
       IN IF Truthy(minv) /\ ~Orderable(minv) THEN TypeError
          ELSE IF Truthy(minv) /\ value.n < minv.n
            THEN ValidationError("Must be >= {minv}.", minv.n)
          ELSE IF Truthy(maxv) /\ ~Orderable(maxv) THEN TypeError
          ELSE IF Truthy(maxv) /\ value.n > maxv.n
            THEN ValidationError("Must be <= {maxv}.", maxv.n)
          ELSE Ok

ValidateNumber(opts, value) ==
  IF ~IsInstanceNumber(value) THEN ValidationError("Must be a number.", 0)
  ELSE LET minv == OptGet(opts, "min")
           maxv == OptGet(opts, "max")
       IN IF minv # None /\ ~Orderable(minv) THEN TypeError
          ELSE IF minv # None /\ value.n < minv.n
            THEN ValidationError("Must be >= {minv}.", minv.n)
          ELSE IF maxv # None /\ ~Orderable(maxv) THEN TypeError
          ELSE IF maxv # None /\ value.n > maxv.n
            THEN ValidationError("Must be <= {maxv}.", maxv.n)
          ELSE Ok

\* date / datetime
ValidateDate(opts, value) ==
  IF ~IsInstanceStr(value)
    THEN ValidationError("Must be an ISO date/datetime string.", 0)
    ELSE Ok

\* the choice test made before the type test
ValidateSelectChoiceFirst(opts, value) ==
  LET choices == OptGetDefault(opts, "choices", JList(<<>>))
  IN IF Truthy(choices) /\ ~Iterable(choices) THEN TypeError
     ELSE IF Truthy(choices) /\ ~Contains(choices, value)
       THEN ValidationError("Invalid choice.", 0)
     ELSE IF ~IsInstanceStr(value) THEN ValidationError("Must be a string.", 0)
     ELSE Ok

ValidateSelect(opts, value) ==
  LET choices == OptGetDefault(opts, "choices", JList(<<>>))
  IN IF ~IsInstanceStr(value) THEN ValidationError("Must be a string.", 0)
     ELSE IF Truthy(choices) /\ ~Iterable(choices) THEN TypeError
     ELSE IF Truthy(choices) /\ ~Contains(choices, value)
       THEN ValidationError("Invalid choice.", 0)
     ELSE Ok

ValidateMultiSelect(opts, value) ==
  LET choices == OptGetDefault(opts, "choices", JList(<<>>))
  IN IF ~IsInstanceList(value)
        \/ ~(\A j \in DOMAIN value.l : IsInstanceStr(value.l[j]))
       THEN ValidationError("Must be a list of strings.", 0)
     ELSE IF Truthy(choices) /\ value.l # <<>> /\ ~Iterable(choices) THEN TypeError
     ELSE IF Truthy(choices)
             /\ \E j \in DOMAIN value.l : ~Contains(choices, value.l[j])
       THEN ValidationError("Contains invalid choice(s).", 0)
     ELSE Ok

\* the three tests made on one item of a list value
ItemMismatch(item_type, item) ==
  \/ PyEq(item_type, JStr("text")) /\ ~IsInstanceStr(item)
  \/ PyEq(item_type, JStr("number")) /\ ~IsInstanceNumber(item)
  \/ PyEq(item_type, JStr("boolean")) /\ ~IsInstanceBool(item)

ItemMessage(item_type) ==
  CASE PyEq(item_type, JStr("text")) -> "All items must be strings."
    [] PyEq(item_type, JStr("number")) -> "All items must be numbers."
    [] PyEq(item_type, JStr("boolean")) -> "All items must be booleans."

ValidateList(opts, value) ==
  IF ~IsInstanceList(value) THEN ValidationError("Must be a list.", 0)
  ELSE LET item_type == OptGetDefault(opts, "item_type", JStr("text"))
           min_items == OptGet(opts, "min_items")
           max_items == OptGet(opts, "max_items")
       IN IF min_items # None /\ ~Orderable(min_items) THEN TypeError
          ELSE IF min_items # None /\ Len(value.l) < min_items.n
            THEN ValidationError("Must contain at least {min_items} items.", min_items.n)
          ELSE IF max_items # None /\ ~Orderable(max_items) THEN TypeError
          ELSE IF max_items # None /\ Len(value.l) > max_items.n
            THEN ValidationError("Must contain at most {max_items} items.", max_items.n)
          ELSE IF \E j \in DOMAIN value.l : ItemMismatch(item_type, value.l[j])
            THEN ValidationError(ItemMessage(item_type), 0)
          ELSE Ok

\* Entry._validate_value: the dispatch on field.field_type
ValidateValue(field, value) ==
  LET ft == field.field_type
      opts == field.options
  IN CASE ft \in {"text", "long_text", "url"} -> ValidateText(opts, value)
       [] ft = "boolean" -> ValidateBoolean(opts, value)
       [] ft = "number" -> ValidateNumber(opts, value)
       [] ft \in {"date", "datetime"} -> ValidateDate(opts, value)
       [] ft = "select" -> ValidateSelect(opts, value)
       [] ft = "multi_select" -> ValidateMultiSelect(opts, value)
       [] ft = "list" -> ValidateList(opts, value)
       [] OTHER -> ValidationError("Unsupported field type.", 0)

(***************************************************************************)
(* Entry.clean                                                             *)
(***************************************************************************)
\* dicts keyed by strings
EmptyDict == [k \in {} |-> NoMsg]

DictPut(d, k, v) == [x \in DOMAIN d \cup {k} |-> IF x = k THEN v ELSE d[x]]

\* the identifier clean() files a field under and looks its value up by:
\* `schema = {f.label: f ...}` and `key = f.label`
Ident(f) == f.label

\* set(schema.keys())
SchemaKeys(fs) == {Ident(fs[j]) : j \in DOMAIN fs}

\* set(self.data.keys()) - set(schema.keys())
Unknown(fs, d) == DOMAIN d \ SchemaKeys(fs)

\* Python's order on the strings used as keys (code points: capitals first)
KeyOrder == <<"Rating", "Title", "bogus", "extra", "rating", "title">>

Rank(k) == CHOOSE r \in DOMAIN KeyOrder : KeyOrder[r] = k

StrLess(a, b) == Rank(a) < Rank(b)

RECURSIVE Sorted(_)
\* sorted(unknown)
Sorted(S) ==
  IF S = {} THEN <<>>
  ELSE LET m == CHOOSE x \in S : \A y \in S : x = y \/ StrLess(x, y)
       IN <<m>> \o Sorted(S \ {m})

\* one entry per unknown key instead of the aggregate entry
UnknownKeysErrorPerKey(unknown) ==
  [k \in unknown |->
     [text |-> "Unknown field keys: {sorted(unknown)}", arg |-> 0, keys |-> <<k>>]]

\* {"data": f"Unknown field keys: {sorted(unknown)}"}
UnknownKeysError(unknown) ==
  [k \in {"data"} |->
     [text |-> "Unknown field keys: {sorted(unknown)}", arg |-> 0,
      keys |-> Sorted(unknown)]]

\* presence by truthiness of the value
PresentTruthy(f, d) == Ident(f) \in DOMAIN d /\ Truthy(d[Ident(f)])

\* key in self.data and self.data.get(key) not in (None, "", [])
Present(f, d) ==
  /\ Ident(f) \in DOMAIN d
  /\ ~PyEq(d[Ident(f)], None)
  /\ ~PyEq(d[Ident(f)], JStr(""))
  /\ ~PyEq(d[Ident(f)], JList(<<>>))

\* One pass of the `for f in fields` body: the errors dict after it, whether
\* _validate_value was called and with what result, and the exception that
\* leaves the loop (only ValidationError is caught).
CleanField(f, d, errs) ==
  IF f.required /\ ~Present(f, d)
    THEN [exc |-> "none", errors |-> DictPut(errs, Ident(f), Msg("This field is required.", 0)),
          called |-> FALSE, result |-> Ok]
  ELSE IF ~Present(f, d)
    THEN [exc |-> "none", errors |-> errs, called |-> FALSE, result |-> Ok]
  ELSE LET r == ValidateValue(f, d[Ident(f)])
       IN [exc |-> IF r.exc = "TypeError" THEN "TypeError" ELSE "none",
           errors |-> IF r.exc = "ValidationError"
                        THEN DictPut(errs, Ident(f), r.message) ELSE errs,
           called |-> TRUE, result |-> r]

\* what a call leaves its caller with
Returned == [exc |-> "none", message_dict |-> EmptyDict]

Raised(exc, message_dict) == [exc |-> exc, message_dict |-> message_dict]

\* the end of clean(): `if errors: print({"data": errors})`, then return
CleanFinish(errs) == Returned

RECURSIVE CleanLoop(_, _, _, _)
CleanLoop(fs, d, j, errs) ==
  IF j > Len(fs) THEN [exc |-> "none", errors |-> errs]
  ELSE LET r == CleanField(fs[j], d, errs)
       IN IF r.exc # "none" THEN [exc |-> r.exc, errors |-> r.errors]
          ELSE CleanLoop(fs, d, j + 1, r.errors)

\* Entry.clean() as one call: what it raises (or that it returns) and the
\* errors dict it built
clean(type_id, fs, d) ==
  IF type_id = 0 THEN [out |-> Returned, errors |-> EmptyDict]
  ELSE IF Unknown(fs, d) # {}
    THEN [out |-> Raised("ValidationError", UnknownKeysError(Unknown(fs, d))),
          errors |-> EmptyDict]
  ELSE LET r == CleanLoop(fs, d, 1, EmptyDict)
       IN IF r.exc # "none"
            THEN [out |-> Raised(r.exc, EmptyDict), errors |-> r.errors]
            ELSE [out |-> CleanFinish(r.errors), errors |-> r.errors]

(***************************************************************************)
(* The schemas and records the validator is run on.                        *)
(***************************************************************************)
DefaultOptions ==
  [min |-> Unset, max |-> Unset, choices |-> Unset,
   item_type |-> Unset, min_items |-> Unset, max_items |-> Unset]

FieldDefinition(key, label, field_type, required, options) ==
  [key |-> key, label |-> label, field_type |-> field_type,
   required |-> required, options |-> options]

\* FieldType.choices, and one tag outside the enumeration
FieldTypes ==
  {"text", "long_text", "number", "boolean", "date", "datetime",
   "select", "multi_select", "url", "list"}

FieldTypeTags == FieldTypes \cup {"json"}

\* shapes of a min / max option: absent, null, a number, a string
BoundShapes == {Unset, None, JStr("0")} \cup {JInt(k) : k \in -MaxBound..MaxBound}

\* shapes of a min_items / max_items option
CountShapes == {Unset, JStr("1")} \cup {JInt(k) : k \in 0..MaxCount}

\* shapes of a choices option: absent, null, a list of strings, a number
ChoiceShapes ==
  {Unset, None, JInt(5), JList(<<>>), JList(<<JStr("a")>>),
   JList(<<JStr("a"), JStr("b")>>)}

ItemTypeShapes ==
  {Unset, JStr("text"), JStr("number"), JStr("boolean"), JStr("date")}

OptionsFor(ft) ==
  CASE ft = "number" ->
         {[DefaultOptions EXCEPT !.min = a, !.max = b] :
            a \in BoundShapes, b \in BoundShapes}
    [] ft \in {"select", "multi_select"} ->
         {[DefaultOptions EXCEPT !.choices = c] : c \in ChoiceShapes}
    [] ft = "list" ->
         {[DefaultOptions EXCEPT !.item_type = it, !.min_items = a, !.max_items = b] :
            it \in ItemTypeShapes, a \in CountShapes, b \in CountShapes}
    [] OTHER -> {DefaultOptions}

Items == {JStr("a"), JStr("c"), JInt(1), JBool(TRUE)}

Values ==
  {None, JStr(""), JStr("a"), JStr("c"), JBool(TRUE), JBool(FALSE)}
    \cup {JInt(k) : k \in -MaxInt..MaxInt}
    \cup {JList(l) : l \in UNION {[1..k -> Items] : k \in 0..MaxItems}}

\* dicts over a set of keys, each key present or not
Dicts(keys, values) == UNION {[D -> values] : D \in SUBSET keys}

DictMerge(a, b) ==
  [k \in DOMAIN a \cup DOMAIN b |-> IF k \in DOMAIN b THEN b[k] ELSE a[k]]

RatingField(label, req) ==
  FieldDefinition("rating", label, "number", req,
                  [DefaultOptions EXCEPT !.min = JInt(0), !.max = JInt(1)])

TitleField(label, req) == FieldDefinition("title", label, "text", req, DefaultOptions)

\* one or two fields whose label may differ from the key
NarrowSchemas ==
  LET R == {RatingField(l, r) : l \in {"rating", "Rating"}, r \in BOOLEAN}
      T == {TitleField(l, r) : l \in {"title", "Title"}, r \in BOOLEAN}
  IN {<<f>> : f \in R \cup T} \cup {<<f, g>> : f \in R, g \in T}

NarrowValues == {None, JInt(1), JInt(2), JStr("a")}

ExtraKeys == {"bogus", "extra"}

\* the keys of a record of the schema that are not field identifiers: the
\* fields' keys where the label differs, and two keys outside the schema
OtherKeys(fs) == ({fs[j].key : j \in DOMAIN fs} \cup ExtraKeys) \ SchemaKeys(fs)

NoCalls == [j \in {} |-> [value |-> None, result |-> Ok]]

NoEntries == [e \in {} |-> 0]

NoResp ==
  [status |-> 0, method |-> "", pk |-> 0, cause |-> "",
   has_type |-> FALSE, hobby_type |-> 0, has_data |-> FALSE]

\* the hobby type rows by id: three hobby types, the third one of user 2
StoredHobbyTypes == <<[owner |-> 1], [owner |-> 1], [owner |-> 2]>>

\* the tag rows by id: one tag of each user
StoredTags == <<[owner |-> 1], [owner |-> 2]>>

\* no request has been served yet
NoRequest ==
  [route |-> "", user |-> 0, has_type |-> FALSE, hobby_type |-> 0,
   has_tags |-> FALSE, tags |-> {}]

(***************************************************************************)
(* Entry.clean() run on a drawn entry, one pass of its loop at a time.     *)
(***************************************************************************)
\* one field whose key is its label, of every type and option shape, and a
\* record holding any value (or none) for it
InitWide ==
  /\ hobby_type_id = 1
  /\ \E ft \in FieldTypeTags, req \in BOOLEAN :
       \E o \in OptionsFor(ft) :
         fields = <<FieldDefinition("rating", "rating", ft, req, o)>>
  /\ data \in Dicts({"rating"}, Values)

\* one or two fields whose label may differ from the key, and a record over
\* the labels, the keys and two keys outside the schema; the entry may have
\* no hobby type yet
InitNarrow ==
  /\ hobby_type_id \in {0, 1}
  /\ fields \in NarrowSchemas
  /\ \E d \in Dicts(SchemaKeys(fields), NarrowValues),
        e \in Dicts(OtherKeys(fields), {JInt(1)}) :
       data = DictMerge(d, e)

InitClean ==
  /\ InitWide \/ InitNarrow
  /\ pc = "start"
  /\ idx = 0
  /\ errors = EmptyDict
  /\ raised = Returned
  /\ calls = NoCalls
  /\ printed = FALSE

\* `if not self.hobby_type_id: return`, then the unknown keys check
CleanStart ==
  /\ pc = "start"
  /\ IF hobby_type_id = 0
       THEN pc' = "done" /\ raised' = Returned /\ idx' = idx
       ELSE IF Unknown(fields, data) # {}
         THEN /\ pc' = "done"
              /\ raised' = Raised("ValidationError", UnknownKeysError(Unknown(fields, data)))
              /\ idx' = idx
         ELSE /\ pc' = "loop"
              /\ raised' = raised
              /\ idx' = 1
  /\ UNCHANGED <<hobby_type_id, fields, data, errors, calls, printed, dbVars>>

\* one pass of `for f in fields`
CleanNextField ==
  /\ pc = "loop"
  /\ idx <= Len(fields)
  /\ LET r == CleanField(fields[idx], data, errors)
     IN /\ errors' = r.errors
        /\ calls' = IF r.called
                      THEN [j \in DOMAIN calls \cup {idx} |->
                              IF j = idx
                                THEN [value |-> data[Ident(fields[idx])], result |-> r.result]
                                ELSE calls[j]]
                      ELSE calls
        /\ IF r.exc # "none"
             THEN pc' = "done" /\ raised' = Raised(r.exc, EmptyDict) /\ idx' = idx
             ELSE pc' = "loop" /\ raised' = raised /\ idx' = idx + 1
  /\ UNCHANGED <<hobby_type_id, fields, data, printed, dbVars>>

\* `if errors: print({"data": errors})` and the return
CleanReturn ==
  /\ pc = "loop"
  /\ idx > Len(fields)
  /\ printed' = (DOMAIN errors # {})
  /\ raised' = CleanFinish(errors)
  /\ pc' = "done"
  /\ UNCHANGED <<hobby_type_id, fields, data, idx, errors, calls, dbVars>>

Init ==
  /\ InitClean
  /\ entries = NoEntries
  /\ resp = NoResp
  /\ hobby_types = StoredHobbyTypes
  /\ tags = StoredTags
  /\ request = NoRequest

Next ==
  \/ CleanStart
  \/ CleanNextField
  \/ CleanReturn

Spec == Init /\ [][Next]_vars

(***************************************************************************)
(* EntrySerializer and EntryViewset: create and update requests on the     *)
(* stored entries.  The database holds three hobby types and two tags;     *)
(* the columns title and status play no part in validation and are left    *)
(* out of the rows, as are the columns of a hobby type or a tag other than *)
(* its owner.                                                              *)
(***************************************************************************)
Users == {1, 2}

HobbyTypeIds == {1, 2, 3}

\* HobbyType.owner
HobbyTypeOwner(h) == hobby_types[h].owner

\* hobby_type.fields.all() of the stored hobby types; the third one holds a
\* number field whose min option was saved as a string
HobbyTypeFields(h) ==
  CASE h = 1 -> <<TitleField("title", TRUE)>>
    [] h = 2 -> <<RatingField("rating", FALSE)>>
    [] h = 3 -> <<FieldDefinition("rating", "rating", "number", FALSE,
                                  [DefaultOptions EXCEPT !.min = JStr("0")])>>
    [] OTHER -> <<>>

TagIds == {1, 2}

\* Tag.owner
TagOwner(t) == tags[t].owner

EmptyData == [k \in {} |-> None]

\* the data a request may carry
RequestData ==
  {EmptyData,
   [k \in {"title"} |-> JStr("a")],
   [k \in {"rating"} |-> JInt(2)],
   [k \in {"bogus"} |-> JInt(1)]}

\* the attrs of a request: a field the request omits has its has_ flag off
RequestAttrs(partial) ==
  {[has_type |-> ht # 0, hobby_type |-> ht,
    has_data |-> dd[1], data |-> dd[2],
    has_tags |-> tt[1], tags |-> tt[2]] :
     ht \in (IF partial THEN {0} ELSE {}) \cup HobbyTypeIds,
     dd \in {<<FALSE, EmptyData>>} \cup {<<TRUE, d>> : d \in RequestData},
     tt \in {<<FALSE, {}>>} \cup {<<TRUE, tg>> : tg \in {{}} \cup {{t} : t \in TagIds}}}

\* field validation without validate_tags: only the existence of the tags
FieldValidationNoTagOwner(user, attrs) ==
  (IF attrs.has_type /\ (\/ attrs.hobby_type \notin DOMAIN hobby_types
                         \/ HobbyTypeOwner(attrs.hobby_type) # user)
     THEN {"hobby_type"} ELSE {})
  \cup
  (IF attrs.has_tags /\ \E t \in attrs.tags : t \notin DOMAIN tags
     THEN {"tags"} ELSE {})

\* the PrimaryKeyRelatedFields ("object does not exist"), validate_hobby_type
\* and validate_tags: the fields that fail
FieldValidation(user, attrs) ==
  (IF attrs.has_type /\ (\/ attrs.hobby_type \notin DOMAIN hobby_types
                         \/ HobbyTypeOwner(attrs.hobby_type) # user)
     THEN {"hobby_type"} ELSE {})
  \cup
  (IF attrs.has_tags /\ \E t \in attrs.tags : (\/ t \notin DOMAIN tags
                                               \/ TagOwner(t) # user)
     THEN {"tags"} ELSE {})

\* EntrySerializer.validate: clean() of Entry(owner=request.user, **attrs);
\* a field the attrs lack keeps the model's default (no hobby type, data {})
Validate(user, attrs) ==
  clean(attrs.hobby_type,
        HobbyTypeFields(attrs.hobby_type),
        IF attrs.has_data THEN attrs.data ELSE EmptyData).out

\* the instance after `for attr, value in validated_data.items(): setattr(...)`
SetAttrs(instance, attrs) ==
  [instance EXCEPT
     !.hobby_type = IF attrs.has_type THEN attrs.hobby_type ELSE @,
     !.data = IF attrs.has_data THEN attrs.data ELSE @]

\* update() without its call of instance.clean()
InstanceCleanSkipped(instance) == Returned

\* the instance.clean() of update()
InstanceClean(instance) ==
  clean(instance.hobby_type, HobbyTypeFields(instance.hobby_type), instance.data).out

Response(status, method, pk, cause, attrs) ==
  [status |-> status, method |-> method, pk |-> pk, cause |-> cause,
   has_type |-> attrs.has_type, hobby_type |-> attrs.hobby_type,
   has_data |-> attrs.has_data]

\* the status a failed call answers with: 400 for a ValidationError, 500 for
\* an exception nothing catches
StatusOf(out) == IF out.exc = "ValidationError" THEN 400 ELSE 500

\* POST: is_valid(), then perform_create -> serializer.save(owner=request.user)
Create(user, attrs) ==
  /\ Cardinality(DOMAIN entries) < MaxEntries
  /\ LET pk == CHOOSE k \in 1..MaxEntries : k \notin DOMAIN entries
         out == Validate(user, attrs)
         row == [owner |-> user, hobby_type |-> attrs.hobby_type,
                 data |-> IF attrs.has_data THEN attrs.data ELSE EmptyData,
                 tags |-> attrs.tags]
     IN IF FieldValidation(user, attrs) # {}
          THEN /\ resp' = Response(400, "POST", 0, "fields", attrs)
               /\ entries' = entries
        ELSE IF out.exc # "none"
          THEN /\ resp' = Response(StatusOf(out), "POST", 0, "validate", attrs)
               /\ entries' = entries
        ELSE /\ resp' = Response(201, "POST", pk, "none", attrs)
             /\ entries' = [k \in DOMAIN entries \cup {pk} |->
                              IF k = pk THEN row ELSE entries[k]]
  /\ UNCHANGED <<cleanVars, hobby_types, tags>>

\* PUT / PATCH: get_object() on the user's own entries, is_valid(), then
\* serializer.save() -> update(instance, validated_data)
Update(user, pk, partial, attrs) ==
  /\ LET method == IF partial THEN "PATCH" ELSE "PUT"
     IN IF pk \notin DOMAIN entries \/ entries[pk].owner # user
          THEN /\ resp' = Response(404, method, pk, "not_found", attrs)
               /\ entries' = entries
        ELSE IF FieldValidation(user, attrs) # {}
          THEN /\ resp' = Response(400, method, pk, "fields", attrs)
               /\ entries' = entries
        ELSE IF Validate(user, attrs).exc # "none"
          THEN /\ resp' = Response(StatusOf(Validate(user, attrs)), method, pk,
                                   "validate", attrs)
               /\ entries' = entries
        ELSE LET instance == SetAttrs(entries[pk], attrs)
                 out == InstanceClean(instance)
             IN IF out.exc # "none"
                  THEN /\ resp' = Response(StatusOf(out), method, pk, "update", attrs)
                       /\ entries' = entries
                  ELSE /\ resp' = Response(200, method, pk, "none", attrs)
                       /\ entries' =
                            [entries EXCEPT
                               ![pk] = [instance EXCEPT
                                          !.tags = IF attrs.has_tags THEN attrs.tags ELSE @]]
  /\ UNCHANGED <<cleanVars, hobby_types, tags>>

InitSerializer ==
  /\ hobby_type_id = 0
  /\ fields = <<>>
  /\ data = EmptyData
  /\ pc = "idle"
  /\ idx = 0
  /\ errors = EmptyDict
  /\ raised = Returned
  /\ calls = NoCalls
  /\ printed = FALSE
  /\ entries = NoEntries
  /\ resp = NoResp
  /\ hobby_types = StoredHobbyTypes
  /\ tags = StoredTags
  /\ request = NoRequest

CreateRequest ==
  /\ \E user \in Users : \E attrs \in RequestAttrs(FALSE) : Create(user, attrs)
  /\ UNCHANGED request

UpdateRequest ==
  /\ \E user \in Users, pk \in 1..MaxEntries, partial \in BOOLEAN :
       \E attrs \in RequestAttrs(partial) : Update(user, pk, partial, attrs)
  /\ UNCHANGED request

NextSerializer ==
  \/ CreateRequest
  \/ UpdateRequest

SpecSerializer == InitSerializer /\ [][NextSerializer]_vars

(***************************************************************************)
(* HobbyTypeViewset, TagViewset and EntryViewset together: users create    *)
(* and update hobby types, tags and entries on a database that starts      *)
(* empty.  A serializer's owner is read-only, so no request carries one;   *)
(* request keeps the user and the related ids of the last request.         *)
(***************************************************************************)
\* a request body with no hobby type, data or tags
NoAttrs ==
  [has_type |-> FALSE, hobby_type |-> 0, has_data |-> FALSE, data |-> EmptyData,
   has_tags |-> FALSE, tags |-> {}]

\* the attrs of an entry request: any hobby type id and tag ids, stored or not
OwnershipAttrs(partial) ==
  {[has_type |-> ht # 0, hobby_type |-> ht,
    has_data |-> dd[1], data |-> dd[2],
    has_tags |-> tt[1], tags |-> tt[2]] :
     ht \in (IF partial THEN {0} ELSE {}) \cup (1..MaxHobbyTypes),
     dd \in {<<FALSE, EmptyData>>, <<TRUE, [k \in {"title"} |-> JStr("a")]>>},
     tt \in {<<FALSE, {}>>} \cup {<<TRUE, tg>> : tg \in SUBSET (1..MaxTags)}}

Request(route, user, attrs) ==
  [route |-> route, user |-> user,
   has_type |-> attrs.has_type, hobby_type |-> attrs.hobby_type,
   has_tags |-> attrs.has_tags, tags |-> attrs.tags]

\* POST /hobby-types/: perform_create -> serializer.save(owner=request.user)
CreateHobbyType(user) ==
  /\ Len(hobby_types) < MaxHobbyTypes
  /\ hobby_types' = Append(hobby_types, [owner |-> user])
  /\ resp' = Response(201, "POST", Len(hobby_types) + 1, "none", NoAttrs)
  /\ UNCHANGED <<cleanVars, entries, tags>>

\* PUT /hobby-types/{pk}/: get_object() on the user's own hobby types, then
\* save(); the owner is read-only and stays
UpdateHobbyType(user, pk) ==
  /\ IF pk \notin DOMAIN hobby_types \/ HobbyTypeOwner(pk) # user
       THEN resp' = Response(404, "PUT", pk, "not_found", NoAttrs)
       ELSE resp' = Response(200, "PUT", pk, "none", NoAttrs)
  /\ UNCHANGED <<cleanVars, entries, hobby_types, tags>>

\* POST /tags/: perform_create -> serializer.save(owner=request.user)
CreateTag(user) ==
  /\ Len(tags) < MaxTags
  /\ tags' = Append(tags, [owner |-> user])
  /\ resp' = Response(201, "POST", Len(tags) + 1, "none", NoAttrs)
  /\ UNCHANGED <<cleanVars, entries, hobby_types>>

\* PUT /tags/{pk}/: get_object() on the user's own tags, then save()
UpdateTag(user, pk) ==
  /\ IF pk \notin DOMAIN tags \/ TagOwner(pk) # user
       THEN resp' = Response(404, "PUT", pk, "not_found", NoAttrs)
       ELSE resp' = Response(200, "PUT", pk, "none", NoAttrs)
  /\ UNCHANGED <<cleanVars, entries, hobby_types, tags>>

InitOwnership ==
  /\ hobby_type_id = 0
  /\ fields = <<>>
  /\ data = EmptyData
  /\ pc = "idle"
  /\ idx = 0
  /\ errors = EmptyDict
  /\ raised = Returned
  /\ calls = NoCalls
  /\ printed = FALSE
  /\ entries = NoEntries
  /\ resp = NoResp
  /\ hobby_types = <<>>
  /\ tags = <<>>
  /\ request = NoRequest

HobbyTypeCreateRequest ==
  \E user \in Users :
    /\ CreateHobbyType(user)
    /\ request' = Request("hobby-types", user, NoAttrs)

HobbyTypeUpdateRequest ==
  \E user \in Users, pk \in 1..MaxHobbyTypes :
    /\ UpdateHobbyType(user, pk)
    /\ request' = Request("hobby-types", user, NoAttrs)

TagCreateRequest ==
  \E user \in Users :
    /\ CreateTag(user)
    /\ request' = Request("tags", user, NoAttrs)

TagUpdateRequest ==
  \E user \in Users, pk \in 1..MaxTags :
    /\ UpdateTag(user, pk)
    /\ request' = Request("tags", user, NoAttrs)

EntryCreateRequest ==
  \E user \in Users : \E attrs \in OwnershipAttrs(FALSE) :
    /\ Create(user, attrs)
    /\ request' = Request("entries", user, attrs)

EntryUpdateRequest ==
  \E user \in Users, pk \in 1..MaxEntries, partial \in BOOLEAN :
    \E attrs \in OwnershipAttrs(partial) :
      /\ Update(user, pk, partial, attrs)
      /\ request' = Request("entries", user, attrs)

NextOwnership ==
  \/ HobbyTypeCreateRequest
  \/ HobbyTypeUpdateRequest
  \/ TagCreateRequest
  \/ TagUpdateRequest
  \/ EntryCreateRequest
  \/ EntryUpdateRequest

SpecOwnership == InitOwnership /\ [][NextOwnership]_vars

(***************************************************************************)
(* Properties of the validator.                                            *)
(***************************************************************************)
\* clean() has finished on an entry that has a hobby type
Finished == pc = "done" /\ hobby_type_id # 0

\* the value is one of the empty sentinels null, "", []
IsSentinel(v) ==
  \/ v.t = "null"
  \/ v.t = "str" /\ v.s = ""
  \/ v.t = "list" /\ Len(v.l) = 0

\* the field's value exists in the record and is no sentinel
HasValue(f, d) == Ident(f) \in DOMAIN d /\ ~IsSentinel(d[Ident(f)])

\* the fields of the schema that the record violates
ViolatedFields ==
  {Ident(fields[j]) : j \in
     {k \in DOMAIN fields :
        \/ fields[k].required /\ ~HasValue(fields[k], data)
        \/ /\ HasValue(fields[k], data)
           /\ ValidateValue(fields[k], data[Ident(fields[k])]).exc = "ValidationError"}}

\* the fields the loop of clean() has gone through
Passed ==
  IF pc = "done" /\ raised.exc = "TypeError" THEN 1..idx ELSE 1..(idx - 1)

\* C1: on a record with no unknown keys, a field error makes clean() end in
\* Reject carrying field identifier -> message, and clean() ends in Accept
\* only when no field error was recorded.
C1_FieldErrorsReject ==
  (Finished /\ Unknown(fields, data) = {} /\ raised.exc # "TypeError")
    => /\ DOMAIN errors # {}
            => raised.exc = "ValidationError" /\ raised.message_dict = errors
       /\ raised.exc = "none" => DOMAIN errors = {}

\* C2: with N >= 2 violated fields the Reject mapping holds exactly one entry
\* per violated field, and the "data" entry too when a key is unknown.
C2_AllViolationsReported ==
  (Finished /\ Cardinality(ViolatedFields) >= 2)
    => /\ raised.exc = "ValidationError"
       /\ DOMAIN raised.message_dict \ {"data"} = ViolatedFields
       /\ Unknown(fields, data) # {} => "data" \in DOMAIN raised.message_dict

\* C4: fields are identified by FieldDefinition.key: a record whose keys are
\* all keys of the schema is never rejected for unknown keys, and every error
\* entry is filed under "data" or under a key of the schema.
C4_IdentifiedByKey ==
  Finished
    => LET keys == {fields[j].key : j \in DOMAIN fields}
       IN /\ DOMAIN data \subseteq keys => "data" \notin DOMAIN raised.message_dict
          /\ DOMAIN raised.message_dict \subseteq keys \cup {"data"}
          /\ DOMAIN errors \subseteq keys

\* C5: a record with a key the schema does not recognize is rejected with
\* exactly one entry, under "data", listing the unknown keys and only them,
\* each once, in ascending order; without an unknown key there is no "data"
\* entry.
C5_UnknownKeysAggregated ==
  Finished
    => LET unknown == DOMAIN data \ SchemaKeys(fields)
           md == raised.message_dict
       IN /\ unknown # {}
               => /\ raised.exc = "ValidationError"
                  /\ DOMAIN md = {"data"}
                  /\ {md["data"].keys[j] : j \in DOMAIN md["data"].keys} = unknown
                  /\ Len(md["data"].keys) = Cardinality(unknown)
                  /\ \A j, k \in DOMAIN md["data"].keys :
                       j < k => StrLess(md["data"].keys[j], md["data"].keys[k])
          /\ unknown = {} => "data" \notin DOMAIN md

C5_Witness ==
  /\ Finished
  /\ Cardinality(DOMAIN data \ SchemaKeys(fields)) >= 2
  /\ raised.exc = "ValidationError"
  /\ Len(raised.message_dict["data"].keys) >= 2

\* C6: for each field the loop goes through, "This field is required." is
\* recorded iff the field is required and has no value (the key is missing
\* or holds null, "" or []), the type checker is called iff the field has a
\* value, 0 and false count as values, and a field that is neither required
\* nor present records nothing.
C6_PresenceAndRequired ==
  \A j \in Passed :
    LET f == fields[j]
        id == Ident(f)
        present == HasValue(f, data)
        required_error == id \in DOMAIN errors /\ errors[id].text = "This field is required."
    IN /\ required_error <=> (f.required /\ ~present)
       /\ j \in DOMAIN calls <=> present
       /\ (id \in DOMAIN data /\ data[id] \in {JInt(0), JBool(FALSE)}) => j \in DOMAIN calls
       /\ (~f.required /\ ~present) => id \notin DOMAIN errors
       /\ j \in DOMAIN calls => calls[j].value = data[id]

C6_Witness ==
  /\ Finished
  /\ \E j \in Passed :
       /\ fields[j].required
       /\ Ident(fields[j]) \in DOMAIN data
       /\ data[Ident(fields[j])] = JInt(0)
       /\ j \in DOMAIN calls

\* C7: an empty list given for a list field with min_items >= 1 records a
\* length violation for the field, required or not.
C7_EmptyListLengthViolation ==
  (Finished /\ Unknown(fields, data) = {} /\ raised.exc # "TypeError")
    => \A j \in DOMAIN fields :
         LET f == fields[j]
         IN (/\ f.field_type = "list"
             /\ f.options.min_items.t = "int"
             /\ f.options.min_items.n >= 1
             /\ Ident(f) \in DOMAIN data
             /\ data[Ident(f)] = JList(<<>>))
              => /\ Ident(f) \in DOMAIN errors
                 /\ errors[Ident(f)].text = "Must contain at least {min_items} items."

\* a bound that is not set: the option is missing or null
BoundUnset(b) == b.t \in {"unset", "null"}

\* C8: the number checker, given an integer v and integer or unset bounds,
\* succeeds iff (min unset or v >= min) and (max unset or v <= max); a v
\* below min or above max is recorded as a range violation for the field.
C8_NumberRangeInclusive ==
  \A j \in DOMAIN calls :
    LET f == fields[j]
        v == calls[j].value
        r == calls[j].result
        lo == f.options.min
        hi == f.options.max
    IN (/\ f.field_type = "number"
        /\ v.t = "int"
        /\ BoundUnset(lo) \/ lo.t = "int"
        /\ BoundUnset(hi) \/ hi.t = "int")
         => /\ r.exc = "none" <=> /\ BoundUnset(lo) \/ v.n >= lo.n
                                  /\ BoundUnset(hi) \/ v.n <= hi.n
            /\ r.exc \in {"none", "ValidationError"}
            /\ r.exc = "ValidationError"
                 => /\ r.message.text \in {"Must be >= {minv}.", "Must be <= {maxv}."}
                    /\ Ident(f) \in DOMAIN errors
                    /\ errors[Ident(f)] = r.message

C8_Witness ==
  \E j \in DOMAIN calls :
    /\ fields[j].field_type = "number"
    /\ fields[j].options.min = JInt(0)
    /\ calls[j].value = JInt(-1)
    /\ calls[j].result.exc = "ValidationError"
    /\ pc = "done"

\* the choices option is missing, null or empty
NoChoices(c) == c.t \in {"unset", "null"} \/ (c.t = "list" /\ Len(c.l) = 0)

IsMember(c, v) == \E k \in DOMAIN c.l : c.l[k] = v

\* C9: a select value passes iff it is a string and choices is empty or
\* holds it; a multi_select value passes iff it is a list of strings and
\* choices is empty or holds each of them.  A value of the wrong type is a
\* type mismatch whatever the choices; a string outside the choices is an
\* invalid choice.
C9_ChoicesEnforced ==
  \A j \in DOMAIN calls :
    LET f == fields[j]
        v == calls[j].value
        r == calls[j].result
        c == f.options.choices
        strings == v.t = "list" /\ \A k \in DOMAIN v.l : v.l[k].t = "str"
    IN (NoChoices(c) \/ c.t = "list")
         => /\ f.field_type = "select"
                 => /\ r.exc = "none" <=> (v.t = "str" /\ (NoChoices(c) \/ IsMember(c, v)))
                    /\ v.t # "str" => r = ValidationError("Must be a string.", 0)
                    /\ (v.t = "str" /\ r.exc # "none")
                         => r = ValidationError("Invalid choice.", 0)
            /\ f.field_type = "multi_select"
                 => /\ r.exc = "none"
                         <=> (strings /\ (NoChoices(c) \/ \A k \in DOMAIN v.l : IsMember(c, v.l[k])))
                    /\ ~strings => r = ValidationError("Must be a list of strings.", 0)
                    /\ (strings /\ r.exc # "none")
                         => r = ValidationError("Contains invalid choice(s).", 0)

C9_Witness ==
  \E j \in DOMAIN calls :
    /\ fields[j].field_type = "select"
    /\ fields[j].options.choices = JList(<<JStr("a")>>)
    /\ calls[j].value = JInt(1)
    /\ calls[j].result = ValidationError("Must be a string.", 0)
    /\ pc = "done"

\* C10: clean() ends in exactly one of Accept and Reject whatever the schema
\* and the record hold: no other fault leaves the validator.
C10_NoFaultEscapes ==
  pc = "done" => raised.exc \in {"none", "ValidationError"}

\* C11: type checks are exact: the boolean checker passes true and false
\* only (0 and 1 fail), and a boolean given for a number field, or as an
\* item of a list of numbers, is recorded as a type mismatch.
C11_NoBoolNumberCoercion ==
  \A j \in DOMAIN calls :
    LET f == fields[j]
        v == calls[j].value
        r == calls[j].result
    IN /\ f.field_type = "boolean" => (r.exc = "none" <=> v.t = "bool")
       /\ (f.field_type = "number" /\ v.t = "bool")
            => r = ValidationError("Must be a number.", 0)
       /\ (/\ f.field_type = "list"
           /\ f.options.item_type = JStr("number")
           /\ f.options.min_items = Unset
           /\ f.options.max_items = Unset
           /\ v.t = "list"
           /\ \E k \in DOMAIN v.l : v.l[k].t = "bool")
            => r = ValidationError("All items must be numbers.", 0)

(***************************************************************************)
(* Properties of the write path.                                           *)
(***************************************************************************)
\* the request was answered by a write
Written(r) == r.status \in {200, 201}

\* C3: every create and update that is persisted has passed clean() on the
\* data and under the hobby type the entry holds after the write (the
\* requested type, or the stored one when a partial update omits it), and a
\* request that is refused leaves every stored entry, with its data, hobby
\* type and tags, as it was.
C3_ValidatedBeforePersisted ==
  [][/\ Written(resp')
          => LET e == entries'[resp'.pk]
             IN /\ clean(e.hobby_type, HobbyTypeFields(e.hobby_type), e.data).out.exc = "none"
                /\ resp'.has_type => e.hobby_type = resp'.hobby_type
                /\ (resp'.status = 200 /\ ~resp'.has_type)
                     => e.hobby_type = entries[resp'.pk].hobby_type
     /\ ~Written(resp') => entries' = entries]_vars

C3_Witness ==
  /\ resp.status = 400
  /\ resp.method = "PATCH"
  /\ resp.cause = "update"
  /\ ~resp.has_type
  /\ resp.has_data
  /\ resp.pk \in DOMAIN entries

(***************************************************************************)
(* Properties of ownership.                                                *)
(***************************************************************************)
\* every stored entry belongs to the owner of its hobby type and of each of
\* its tags
OwnershipHolds ==
  \A k \in DOMAIN entries :
    /\ entries[k].hobby_type \in DOMAIN hobby_types
    /\ HobbyTypeOwner(entries[k].hobby_type) = entries[k].owner
    /\ \A t \in entries[k].tags :
         t \in DOMAIN tags /\ TagOwner(t) = entries[k].owner

\* the last request was one on entries naming a stored hobby type or a stored
\* tag of another user
ForeignHobbyType ==
  /\ request.route = "entries"
  /\ request.has_type
  /\ request.hobby_type \in DOMAIN hobby_types
  /\ HobbyTypeOwner(request.hobby_type) # request.user

ForeignTag ==
  /\ request.route = "entries"
  /\ request.has_tags
  /\ \E t \in request.tags : t \in DOMAIN tags /\ TagOwner(t) # request.user

\* C12: after any create and update requests of any users on hobby types,
\* tags and entries, every stored entry's owner is the owner of its hobby
\* type and of each of its tags, and a request whose hobby type or one of
\* whose tags belongs to another user is rejected and changes no entry.
C12_OwnershipInvariant ==
  [][/\ OwnershipHolds'
     /\ (ForeignHobbyType' \/ ForeignTag')
          => (resp'.status \in {400, 404} /\ entries' = entries)]_vars

\* a user who has an entry with a tag of their own is refused another
\* user's tag on it
C12_Witness ==
  /\ ForeignTag
  /\ ~ForeignHobbyType
  /\ resp.status = 400
  /\ resp.cause = "fields"
  /\ resp.pk \in DOMAIN entries
  /\ entries[resp.pk].owner = request.user
  /\ entries[resp.pk].tags # {}

====
